---- MODULE Spec2Model ----
(***************************************************************************)
(* The DB721 foreign data wrapper of iamkroot/postgres-fdw as a state      *)
(* machine.  The repository holds the wrapper twice: the memory-mapped     *)
(* reader of src/db721_fdw/src/db721_fdw.rs and the file reader of         *)
(* src/wrappers/src/fdw/db721_fdw/db721_fdw.rs.  The variable `variant`    *)
(* says which of the two was built; both are driven by the same host       *)
(* calls begin_scan / iter_scan / end_scan.                                *)
(*                                                                         *)
(* Values.  A cell is [tag, n, s]: n carries a numeric payload, s a byte   *)
(* string (a sequence of non-zero bytes).  Floats live on an integer grid  *)
(* on which the even numbers are the values a 32-bit float can hold and    *)
(* every integer is a value a 64-bit float can hold, so that narrowing a   *)
(* 64-bit right-hand side rounds.  Option<T> is a sequence of length <= 1. *)
(***************************************************************************)
EXTENDS Integers, Sequences, FiniteSets, TLC

VARIABLES
    variant,    \* which source file was built: "db721_fdw" or "wrappers"
    plan,       \* the host's arguments of begin_scan (quals, columns, limit, filename)
    reader,     \* Db721Fdw.reader : Option<Db721Reader>
    row,        \* the caller's Row buffer as the last iter_scan left it
    ret,        \* what the last iter_scan returned: "Some", "None", or "" when none ran
    lastOp,     \* the last operation that ran
    lastBegin,  \* how the last begin_scan call ended
    scan,       \* the scan self.reader belongs to: how the begin_scan that assigned it ended
    emitted,    \* cursor positions of the rows returned since self.reader was assigned
    decoded,    \* the cells the last iter_scan decoded, in order
    reported,   \* the report_error calls of the last operation, in order
    panicked,   \* a panic unwound out of the wrapper: the query is aborted
    trailer,    \* parse_file on its own: the bytes of the file it is given
    db721_file, \* parse_file on its own: how the call ended
    doc,        \* Metadata on its own: the JSON object of a trailer
    redone,     \* Metadata on its own: the JSON object after decoding and encoding
    LOG_INIT,   \* the static of Db721Fdw::new
    pc,         \* Db721Fdw::new on its own: where each concurrent call stands
    inits       \* how often the logger initialization ran

scanVars == <<variant, plan, reader, row, ret, lastOp, lastBegin, scan, emitted,
              decoded, reported, panicked>>

parserVars == <<trailer, db721_file>>

jsonVars == <<doc, redone>>

logVars == <<LOG_INIT, pc, inits>>

vars == <<scanVars, parserVars, jsonVars, logVars>>

\* the parts of the program a specification does not exercise stand still
ParserOff == trailer = <<>> /\ db721_file = <<>>

JsonOff == doc = <<>> /\ redone = <<>>

LogOff == LOG_INIT = TRUE /\ pc = <<>> /\ inits = 1

ScanOff ==
    /\ variant = "db721_fdw"
    /\ plan = <<>>
    /\ reader = <<>>
    /\ row = <<>>
    /\ ret = ""
    /\ lastOp = "new"
    /\ lastBegin = "none"
    /\ scan = "none"
    /\ emitted = <<>>
    /\ decoded = <<>>
    /\ reported = <<>>
    /\ panicked = FALSE

-----------------------------------------------------------------------------
(* Bounds of the file the scans run over. *)

NumBlocks == 3

MaxValuesPerBlock == 2

LastCount == 1

Min(a, b) == IF a < b THEN a ELSE b

Max(a, b) == IF a < b THEN b ELSE a

None == <<>>

Some(x) == <<x>>

-----------------------------------------------------------------------------
(* Cells and byte strings. *)

I32(v) == [tag |-> "I32", n |-> v, s |-> <<>>]

F32(v) == [tag |-> "F32", n |-> v, s |-> <<>>]

F64(v) == [tag |-> "F64", n |-> v, s |-> <<>>]

StringCell(b) == [tag |-> "String", n |-> 0, s |-> b]

PgString(b) == [tag |-> "PgString", n |-> 0, s |-> b]

BoolCell(v) == [tag |-> "Bool", n |-> v, s |-> <<>>]

\* lexicographic byte-wise order of Rust's str and [u8]
LexLt(a, b) ==
    \E i \in 1..(Min(Len(a), Len(b)) + 1) :
        /\ \A j \in 1..(i - 1) : a[j] = b[j]
        /\ \/ i > Len(a) /\ i <= Len(b)
           \/ i <= Len(a) /\ i <= Len(b) /\ a[i] < b[i]

LexLe(a, b) == a = b \/ LexLt(a, b)

\* `v as f32` of a 64-bit float: round to the nearest value of the 32-bit
\* grid (the even numbers), a tie going to the even mantissa (a multiple of 4)
NarrowF32(v) ==
    IF v % 2 = 0 THEN v
    ELSE IF (v + 1) % 4 = 0 THEN v + 1 ELSE v - 1

-----------------------------------------------------------------------------
(* Op, PolyVal and CustomQual. *)

\* Op::from_str
OpFromStr(s) ==
    CASE s = "="  -> Some("Eq")
      [] s = "<"  -> Some("Lt")
      [] s = "<=" -> Some("Lte")
      [] s = ">"  -> Some("Gt")
      [] s = ">=" -> Some("Gte")
      [] OTHER    -> None

\* Op::eval on numbers
OpEval(op, lhs, rhs) ==
    CASE op = "Eq"  -> lhs = rhs
      [] op = "Lt"  -> lhs < rhs
      [] op = "Lte" -> lhs <= rhs
      [] op = "Gt"  -> lhs > rhs
      [] op = "Gte" -> lhs >= rhs

\* Op::eval on byte strings
OpEvalBytes(op, lhs, rhs) ==
    CASE op = "Eq"  -> lhs = rhs
      [] op = "Lt"  -> LexLt(lhs, rhs)
      [] op = "Lte" -> LexLe(lhs, rhs)
      [] op = "Gt"  -> LexLt(rhs, lhs)
      [] op = "Gte" -> LexLe(rhs, lhs)

\* PolyVal::try_from(&Value)
PolyValTryFrom(value) ==
    CASE value.tag = "I32"    -> Some([tag |-> "Int", n |-> value.n, s |-> <<>>])
      [] value.tag = "F32"    -> Some([tag |-> "Float", n |-> value.n, s |-> <<>>])
      [] value.tag = "F64"    -> Some([tag |-> "Float", n |-> NarrowF32(value.n), s |-> <<>>])
      [] value.tag = "String" -> Some([tag |-> "Str", n |-> 0, s |-> value.s])
      [] OTHER                -> None

\* CustomQual::eval of the memory-mapped reader: "T", "F" (a type mismatch
\* warns and is false)
CustomQualEval(q, lhs) ==
    CASE lhs.tag = "F32" /\ q.rhs.tag = "Float" ->
            IF OpEval(q.op, lhs.n, q.rhs.n) THEN "T" ELSE "F"
      [] lhs.tag = "I32" /\ q.rhs.tag = "Int" ->
            IF OpEval(q.op, lhs.n, q.rhs.n) THEN "T" ELSE "F"
      [] lhs.tag \in {"PgString", "String"} /\ q.rhs.tag = "Str" ->
            IF OpEvalBytes(q.op, lhs.s, q.rhs.s) THEN "T" ELSE "F"
      [] OTHER -> "F"

\* CustomQual::eval of the file reader: "T", "F", or "P" (a type mismatch panics)
CustomQualEvalW(q, lhs) ==
    CASE lhs.tag = "F32" ->
            IF q.rhs.tag # "Float" THEN "P"
            ELSE IF OpEval(q.op, lhs.n, q.rhs.n) THEN "T" ELSE "F"
      [] lhs.tag = "I32" ->
            IF q.rhs.tag # "Int" THEN "P"
            ELSE IF OpEval(q.op, lhs.n, q.rhs.n) THEN "T" ELSE "F"
      [] lhs.tag = "PgString" ->
            IF q.rhs.tag # "Str" THEN "P"
            ELSE IF OpEvalBytes(q.op, lhs.s, q.rhs.s) THEN "T" ELSE "F"
      [] OTHER -> "P"

-----------------------------------------------------------------------------
(* The file the scans read: three columns in NumBlocks blocks of           *)
(* MaxValuesPerBlock values, the last block holding LastCount.  Its block  *)
(* statistics are the true bounds of the stored values.                    *)

NumFieldSize == 4

StrFieldSize == 32

ColumnNames == {"age", "wt", "name"}

TotalRows == (NumBlocks - 1) * MaxValuesPerBlock + LastCount

RowIdx == 0..(TotalRows - 1)

Blocks == 0..(NumBlocks - 1)

CountOf(b) == IF b = NumBlocks - 1 THEN LastCount ELSE MaxValuesPerBlock

RowsOf(b) == {i \in RowIdx : i \div MaxValuesPerBlock = b}

ColType(c) == CASE c = "age" -> "int" [] c = "wt" -> "float" [] c = "name" -> "str"

\* the value stored at absolute row i of column c, as [n, s]
ValueAt(c, i) ==
    CASE c = "age" ->
            [n |-> IF (i \div MaxValuesPerBlock) % 2 = 1 THEN i + 10 ELSE i, s |-> <<>>]
      [] c = "wt" -> [n |-> 2 * i, s |-> <<>>]
      [] c = "name" ->
            [n |-> 0, s |-> IF i % 2 = 0 THEN <<1 + (i % 3)>> ELSE <<1 + (i % 3), 1>>]

StartOffset(c) ==
    CASE c = "age" -> 0
      [] c = "wt" -> NumFieldSize * TotalRows
      [] c = "name" -> 2 * NumFieldSize * TotalRows

DataLen == 2 * NumFieldSize * TotalRows + StrFieldSize * TotalRows

\* Column::field_size: the widths read_cur_val of the file reader spells out
FieldSize(type) == IF type = "str" THEN StrFieldSize ELSE NumFieldSize

BlockStat(c, b) ==
    LET vs == {ValueAt(c, i) : i \in RowsOf(b)}
        lens == {Len(v.s) : v \in vs}
    IN  [num     |-> CountOf(b),
         min     |-> IF ColType(c) = "str"
                     THEN CHOOSE v \in vs : \A w \in vs : LexLe(v.s, w.s)
                     ELSE CHOOSE v \in vs : \A w \in vs : v.n <= w.n,
         max     |-> IF ColType(c) = "str"
                     THEN CHOOSE v \in vs : \A w \in vs : LexLe(w.s, v.s)
                     ELSE CHOOSE v \in vs : \A w \in vs : w.n <= v.n,
         min_len |-> IF ColType(c) = "str"
                     THEN CHOOSE l \in lens : \A k \in lens : l <= k ELSE 0,
         max_len |-> IF ColType(c) = "str"
                     THEN CHOOSE l \in lens : \A k \in lens : k <= l ELSE 0]

FarmColumn(c) ==
    [type         |-> ColType(c),
     num_blocks   |-> NumBlocks,
     start_offset |-> StartOffset(c),
     block_stats  |-> [b \in Blocks |-> BlockStat(c, b)]]

FarmMetadata ==
    [columns            |-> [c \in ColumnNames |-> FarmColumn(c)],
     max_vals_per_block |-> MaxValuesPerBlock]

\* the column payloads: what is stored at each byte offset where a value starts
FarmData ==
    [off \in UNION {{StartOffset(c) + i * FieldSize(ColType(c)) : i \in RowIdx} :
                        c \in ColumnNames} |->
        LET c == CHOOSE c \in ColumnNames :
                    \E i \in RowIdx : off = StartOffset(c) + i * FieldSize(ColType(c))
            i == CHOOSE i \in RowIdx : off = StartOffset(c) + i * FieldSize(ColType(c))
        IN  [type |-> ColType(c), n |-> ValueAt(c, i).n, s |-> ValueAt(c, i).s,
             nul |-> TRUE]]

FarmFile ==
    [exists       |-> TRUE,
     len          |-> DataLen + 64 + 4,
     metadata_len |-> 64,
     json_ok      |-> TRUE,
     metadata     |-> FarmMetadata,
     data         |-> FarmData]

MissingFile ==
    [exists       |-> FALSE,
     len          |-> 0,
     metadata_len |-> 0,
     json_ok      |-> FALSE,
     metadata     |-> FarmMetadata,
     data         |-> FarmData]

FileNames == {"farm.db721", "missing.db721"}

\* Damaged files.  The metadata of short.db721 puts column wt two values
\* before the end of the file: its first two reads return bytes of the
\* trailer, the third lies outside the file.
ShortFile ==
    [FarmFile EXCEPT !.metadata.columns["wt"].start_offset =
                            FarmFile.len - 2 * NumFieldSize]

\* the 32-byte slot of the second name holds no zero byte
NoNulFile ==
    [FarmFile EXCEPT !.data[StartOffset("name") + StrFieldSize].nul = FALSE]

\* fewer than the 4 bytes of the length field
TinyFile == [MissingFile EXCEPT !.exists = TRUE, !.len = 3]

\* the length field declares more bytes than precede it
LongLenFile == [FarmFile EXCEPT !.metadata_len = FarmFile.len]

\* the trailer is no JSON of the shape of Metadata
BadJsonFile == [FarmFile EXCEPT !.json_ok = FALSE]

\* column age has no statistics entry for block 1
SparseFile ==
    [FarmFile EXCEPT !.metadata.columns["age"].block_stats =
                        [b \in Blocks \ {1} |-> BlockStat("age", b)]]

\* column wt declares one block fewer than age and name, and has no
\* statistics for the last block
SkewFile ==
    [FarmFile EXCEPT !.metadata.columns["wt"].num_blocks = NumBlocks - 1,
                     !.metadata.columns["wt"].block_stats =
                        [b \in Blocks \ {NumBlocks - 1} |-> BlockStat("wt", b)]]

\* the stat objects of column name carry no min_len and no max_len, which
\* serde fills in as 0
NoLenFile ==
    [FarmFile EXCEPT !.metadata.columns["name"].block_stats =
                        [b \in Blocks |->
                            [BlockStat("name", b) EXCEPT !.min_len = 0, !.max_len = 0]]]

DamagedNames ==
    {"short.db721", "nonul.db721", "tiny.db721", "longlen.db721",
     "badjson.db721", "sparse.db721", "skew.db721", "nolen.db721"}

Files ==
    [f \in FileNames \cup DamagedNames |->
        CASE f = "farm.db721"    -> FarmFile
          [] f = "missing.db721" -> MissingFile
          [] f = "short.db721"   -> ShortFile
          [] f = "nonul.db721"   -> NoNulFile
          [] f = "tiny.db721"    -> TinyFile
          [] f = "longlen.db721" -> LongLenFile
          [] f = "badjson.db721" -> BadJsonFile
          [] f = "sparse.db721"  -> SparseFile
          [] f = "skew.db721"    -> SkewFile
          [] f = "nolen.db721"   -> NoLenFile]

-----------------------------------------------------------------------------
(* parser.rs and metadata.rs. *)

\* parse_file: the ways it can end on file f.  A declared length beyond the
\* trailer makes `pos - metadata_len` overflow: a build with overflow checks
\* panics, one without wraps and the seek fails.
parse_file(f) ==
    IF ~f.exists THEN {"Err"}
    ELSE IF f.len < 4 THEN {"Err"}
    ELSE IF f.metadata_len > f.len - 4 THEN {"Panic", "Err"}
    ELSE IF ~f.json_ok THEN {"Panic"}
    ELSE {"Ok"}

RECURSIVE SumNum(_, _)
SumNum(stats, bs) ==
    IF bs = {} THEN 0
    ELSE LET b == CHOOSE b \in bs : TRUE
         IN  stats[b].num + SumNum(stats, bs \ {b})

\* Metadata::num_rows that leaves out the last block
num_rows_short(md, first) ==
    IF first = None THEN 0
    ELSE LET col == md.columns[first[1]]
             last == CHOOSE b \in DOMAIN col.block_stats :
                        \A c \in DOMAIN col.block_stats : c <= b
         IN  SumNum(col.block_stats, DOMAIN col.block_stats \ {last})

\* Metadata::num_rows; `first` is columns.values().next(), None for no column
num_rows(md, first) ==
    IF first = None THEN 0
    ELSE LET col == md.columns[first[1]]
         IN  SumNum(col.block_stats, DOMAIN col.block_stats)

\* Metadata::num_rows_in_block; total is what num_rows() returns
num_rows_in_block(md, total, b) ==
    Min(md.max_vals_per_block, total - b * md.max_vals_per_block)

-----------------------------------------------------------------------------
(* Db721Reader. *)

\* the numeric match of skip_block: is the block provably without a match
SkipNumLteAtMin(op, min, max, rhs) ==
    CASE op = "Eq" -> min > rhs \/ max < rhs
      [] op = "Lt" -> min >= rhs
      [] op = "Lte" -> min >= rhs
      [] op = "Gt" -> max <= rhs
      [] op = "Gte" -> max < rhs

SkipNum(op, min, max, rhs) ==
    CASE op = "Eq" -> min > rhs \/ max < rhs
      [] op = "Lt" -> min >= rhs
      [] op = "Lte" -> min > rhs
      [] op = "Gt" -> max <= rhs
      [] op = "Gte" -> max < rhs

\* the string match without the two length tests of `=`
SkipStrNoLen(op, stats, rhs) ==
    CASE op = "Eq" -> LexLt(rhs, stats.min.s) \/ LexLt(stats.max.s, rhs)
      [] op = "Lt" -> LexLe(rhs, stats.min.s)
      [] op = "Lte" -> LexLt(rhs, stats.min.s)
      [] op = "Gt" -> LexLe(stats.max.s, rhs)
      [] op = "Gte" -> LexLt(stats.max.s, rhs)

\* the string match of skip_block
SkipStr(op, stats, rhs) ==
    CASE op = "Eq" ->
            \/ stats.max_len < Len(rhs)
            \/ stats.min_len > Len(rhs)
            \/ LexLt(rhs, stats.min.s)
            \/ LexLt(stats.max.s, rhs)
      [] op = "Lt" -> LexLe(rhs, stats.min.s)
      [] op = "Lte" -> LexLt(rhs, stats.min.s)
      [] op = "Gt" -> LexLe(stats.max.s, rhs)
      [] op = "Gte" -> LexLt(stats.max.s, rhs)

\* one qual's test in skip_block on block b: "T" skip, "F" keep, "P" panic
SkipTest(md, q, b) ==
    IF q.field \notin DOMAIN md.columns THEN "P"
    ELSE
    LET col == md.columns[q.field]
    IN  IF b \notin DOMAIN col.block_stats THEN "F"
        ELSE
        LET stats == col.block_stats[b]
            want == CASE col.type = "float" -> "Float"
                      [] col.type = "int" -> "Int"
                      [] col.type = "str" -> "Str"
        IN  IF q.rhs.tag # want THEN "P"
            ELSE IF col.type = "str"
            THEN IF SkipStr(q.op, stats, q.rhs.s) THEN "T" ELSE "F"
            ELSE IF SkipNum(q.op, stats.min.n, stats.max.n, q.rhs.n) THEN "T" ELSE "F"

\* Iterator::any over the qual map in its iteration order, from entry i on
RECURSIVE AnySkip(_, _, _, _)
AnySkip(md, quals, b, i) ==
    IF i > Len(quals) THEN "F"
    ELSE LET t == SkipTest(md, quals[i], b)
         IN  IF t = "F" THEN AnySkip(md, quals, b, i + 1) ELSE t

\* Db721Reader::skip_block: "T", "F" or "P"
skip_block(md, quals, block_num) == AnySkip(md, quals, block_num, 1)

\* a cursor that steps over no block
SkipBlocksNone(md, quals, num_blocks, block_num) ==
    [st |-> "Ok", block_num |-> block_num]

\* while block_num < num_blocks && skip_block(block_num) { block_num += 1 }
RECURSIVE SkipBlocks(_, _, _, _)
SkipBlocks(md, quals, num_blocks, block_num) ==
    IF block_num >= num_blocks THEN [st |-> "Ok", block_num |-> block_num]
    ELSE LET t == skip_block(md, quals, block_num)
         IN  CASE t = "P" -> [st |-> "Panic", block_num |-> block_num]
               [] t = "F" -> [st |-> "Ok", block_num |-> block_num]
               [] t = "T" -> SkipBlocks(md, quals, num_blocks, block_num + 1)

\* the bytes at offset off read as a value of the given type: what the writer
\* stored there, or bytes that are no value of that type
StoredAt(f, type, off) ==
    IF off \in DOMAIN f.data /\ f.data[off].type = type
    THEN f.data[off]
    ELSE [type |-> type, n |-> 0, s |-> <<>>, nul |-> FALSE]

\* an offset that counts rows within the block only
ReadOffsetInBlock(md, col, block_num, block_row_num) ==
    col.start_offset + block_row_num * FieldSize(col.type)

ReadOffset(md, col, block_num, block_row_num) ==
    col.start_offset
        + (md.max_vals_per_block * block_num + block_row_num) * FieldSize(col.type)

\* Db721Reader::read_cur_val of the memory-mapped reader
read_cur_val(f, col, block_num, block_row_num) ==
    LET off == ReadOffset(f.metadata, col, block_num, block_row_num)
        v == StoredAt(f, col.type, off)
    IN  IF off + FieldSize(col.type) > f.len
        THEN [st |-> "Panic", cell |-> I32(0), off |-> off]
        ELSE CASE col.type = "float" -> [st |-> "Ok", cell |-> F32(v.n), off |-> off]
               [] col.type = "int" -> [st |-> "Ok", cell |-> I32(v.n), off |-> off]
               [] col.type = "str" ->
                    IF v.nul THEN [st |-> "Ok", cell |-> PgString(v.s), off |-> off]
                    ELSE [st |-> "Panic", cell |-> I32(0), off |-> off]

\* the bits of a small non-negative i32 read as an f32 are a denormal, which
\* the float grid rounds to zero
F32FromIntBits(n) == 0

\* read_cur_val and read_val of the file reader: "Err" is a reported read error
read_cur_val_w(f, col, block_num, block_row_num) ==
    LET off == ReadOffset(f.metadata, col, block_num, block_row_num)
        v == StoredAt(f, col.type, off)
    IN  IF off + FieldSize(col.type) > f.len
        THEN [st |-> "Err", cell |-> I32(0), off |-> off]
        ELSE CASE col.type = "float" -> [st |-> "Ok", cell |-> F32(v.n), off |-> off]
               [] col.type = "int" ->
                    [st |-> "Ok", cell |-> F32(F32FromIntBits(v.n)), off |-> off]
               [] col.type = "str" ->
                    IF v.nul THEN [st |-> "Ok", cell |-> PgString(v.s), off |-> off]
                    ELSE [st |-> "Panic", cell |-> I32(0), off |-> off]

\* the clamp without the offset taken off
ClampLimitToTotal(limit, total) ==
    IF limit = None THEN [count |-> total, offset |-> 0]
    ELSE IF limit[1].offset + limit[1].count > total
         THEN [count |-> total, offset |-> limit[1].offset]
         ELSE limit[1]

\* the LIMIT of Db721Reader::new: clamped when given, the whole file when not
ClampLimit(limit, total) ==
    IF limit = None THEN [count |-> total, offset |-> 0]
    ELSE IF limit[1].offset + limit[1].count > total
         THEN [count |-> total - limit[1].offset, offset |-> limit[1].offset]
         ELSE limit[1]

\* cols.iter().position(|f| f == field): a 1-based index, None when absent
Position(cols, field) ==
    IF \E i \in 1..Len(cols) : cols[i] = field
    THEN Some(CHOOSE i \in 1..Len(cols) :
                /\ cols[i] = field
                /\ \A j \in 1..(i - 1) : cols[j] # field)
    ELSE None

\* the loop of Db721Reader::new that compiles the quals into the map qs, from
\* qual i on; HashMap::insert replaces the entry of a field that has one
RECURSIVE CompileQuals(_, _, _, _, _)
CompileQuals(v, cols, quals, i, qs) ==
    IF i > Len(quals) THEN [st |-> "Ok", qs |-> qs, reported |-> <<>>]
    ELSE
    LET q == quals[i]
        op == OpFromStr(q.operator)
        rhs == PolyValTryFrom(q.value)
        pos == Position(cols, q.field)
    IN  IF q.use_or THEN [st |-> "Err", qs |-> qs, reported |-> <<"use_or">>]
        ELSE IF op = None THEN [st |-> "Err", qs |-> qs, reported |-> <<"op">>]
        ELSE IF rhs = None THEN [st |-> "Err", qs |-> qs, reported |-> <<"rhs">>]
        ELSE IF v = "db721_fdw" /\ pos = None
             THEN [st |-> "Panic", qs |-> qs, reported |-> <<>>]
        ELSE
        LET e == [field |-> q.field,
                  idx   |-> IF v = "db721_fdw" THEN pos[1] ELSE 0,
                  op    |-> op[1],
                  rhs   |-> rhs[1]]
        IN  CompileQuals(v, cols, quals, i + 1,
                [f \in DOMAIN qs \cup {q.field} |-> IF f = q.field THEN e ELSE qs[f]])

\* the orders in which a HashMap with these keys can be iterated
IterOrders(keys) ==
    {s \in [1..Cardinality(keys) -> keys] :
        \A i, j \in 1..Cardinality(keys) : i # j => s[i] # s[j]}

\* cols.iter().enumerate().filter_map(..): the projected columns without a qual
NonPredCols(cols, keys) ==
    SelectSeq([i \in 1..Len(cols) |-> [idx |-> i, col |-> cols[i]]],
              LAMBDA e : e.col \notin keys)

\* Db721Reader::new after parse_file succeeded, for one iteration order of
\* the column map (its first column) and one of the qual map.  The reader
\* keeps, as num_rows, what Metadata::num_rows() returns for that order: the
\* map is not changed during the scan, so every later call returns the same.
NewReader(v, filename, cols, quals, limit, first, cq, order) ==
    LET md == Files[filename].metadata
        qseq == [i \in 1..Len(order) |-> cq.qs[order[i]]]
        skipped == SkipBlocks(md, qseq, md.columns[first[1]].num_blocks, 0)
        rd == [file          |-> filename,
               num_rows      |-> num_rows(md, first),
               num_blocks    |-> md.columns[first[1]].num_blocks,
               cols          |-> cols,
               limit         |-> ClampLimit(limit, num_rows(md, first)),
               quals         |-> qseq,
               non_pred_cols |-> IF v = "db721_fdw"
                                 THEN NonPredCols(cols, DOMAIN cq.qs) ELSE <<>>,
               row_cnt       |-> 0,
               block_num     |-> skipped.block_num,
               block_row_num |-> 0]
    IN  IF skipped.st = "Panic"
        THEN [st |-> "Panic", reader |-> None, reported |-> <<>>]
        ELSE IF skipped.block_num >= rd.num_blocks
        THEN [st |-> "Empty", reader |-> None, reported |-> <<>>]
        ELSE [st |-> "Ok", reader |-> Some(rd), reported |-> <<>>]

\* Db721Reader::new: every way it can end.  "Err" is Err(()) after a
\* report_error, "Empty" is the Err(()) of a scan whose blocks are all pruned.
Db721ReaderNew(v, filename, cols, quals, limit) ==
    LET f == Files[filename]
        md == f.metadata
        firsts == IF DOMAIN md.columns = {} THEN {None}
                  ELSE {Some(c) : c \in DOMAIN md.columns}
        cq == CompileQuals(v, cols, quals, 1, <<>>)
        parsed ==
            IF /\ v = "db721_fdw"
               /\ \/ \E i \in 1..Len(cols) : cols[i] \notin DOMAIN md.columns
                  \/ \E i \in 1..Len(quals) : quals[i].field \notin DOMAIN md.columns
            THEN {[st |-> "Panic", reader |-> None, reported |-> <<>>]}
            ELSE IF cq.st # "Ok"
            THEN {[st |-> cq.st, reader |-> None, reported |-> cq.reported]}
            ELSE IF DOMAIN md.columns = {}
            THEN {[st |-> "Panic", reader |-> None, reported |-> <<>>]}
            ELSE {NewReader(v, filename, cols, quals, limit, first, cq, order) :
                    first \in firsts, order \in IterOrders(DOMAIN cq.qs)}
    IN  UNION {CASE p = "Err" ->
                        {[st |-> "Err", reader |-> None, reported |-> <<"parse">>]}
                 [] p = "Panic" ->
                        {[st |-> "Panic", reader |-> None, reported |-> <<>>]}
                 [] p = "Ok" -> parsed
               : p \in parse_file(f)}

-----------------------------------------------------------------------------
(* iter_scan of the memory-mapped reader (src/db721_fdw). *)

\* Vec::resize(n, Some(Cell::I32(0)))
Resize(cells, n) ==
    IF Len(cells) >= n THEN SubSeq(cells, 1, n)
    ELSE cells \o [i \in 1..(n - Len(cells)) |-> I32(0)]

Decoded(col, r, block_num, block_row_num, pred) ==
    [col |-> col, off |-> r.off, block |-> block_num, row |-> block_row_num,
     pred |-> pred]

\* for (colname, (i, q)) in &reader.quals { .. }, from entry i on:
\* "T" all passed, "F" one failed, "Panic"
RECURSIVE EvalQuals(_, _, _, _, _, _, _)
EvalQuals(f, rd, b, r, cells, dec, i) ==
    IF i > Len(rd.quals) THEN [st |-> "T", cells |-> cells, dec |-> dec]
    ELSE
    LET q == rd.quals[i]
    IN  IF q.field \notin DOMAIN f.metadata.columns \/ q.idx \notin 1..Len(cells)
        THEN [st |-> "Panic", cells |-> cells, dec |-> dec]
        ELSE
        LET rv == read_cur_val(f, f.metadata.columns[q.field], b, r)
            cells1 == [cells EXCEPT ![q.idx] = rv.cell]
            dec1 == Append(dec, Decoded(q.field, rv, b, r, TRUE))
        IN  IF rv.st = "Panic" THEN [st |-> "Panic", cells |-> cells, dec |-> dec1]
            ELSE IF CustomQualEval(q, rv.cell) = "F"
            THEN [st |-> "F", cells |-> cells1, dec |-> dec1]
            ELSE EvalQuals(f, rd, b, r, cells1, dec1, i + 1)

\* for (i, colname) in &reader.non_pred_cols { .. }, from entry i on
RECURSIVE ReadNonPred(_, _, _, _, _, _, _)
ReadNonPred(f, rd, b, r, cells, dec, i) ==
    IF i > Len(rd.non_pred_cols) THEN [st |-> "T", cells |-> cells, dec |-> dec]
    ELSE
    LET e == rd.non_pred_cols[i]
    IN  IF e.col \notin DOMAIN f.metadata.columns
        THEN [st |-> "Panic", cells |-> cells, dec |-> dec]
        ELSE
        LET rv == read_cur_val(f, f.metadata.columns[e.col], b, r)
            dec1 == Append(dec, Decoded(e.col, rv, b, r, FALSE))
        IN  IF rv.st = "Panic" THEN [st |-> "Panic", cells |-> cells, dec |-> dec1]
            ELSE ReadNonPred(f, rd, b, r, [cells EXCEPT ![e.idx] = rv.cell], dec1, i + 1)

\* an accepted row after which the cursor steps over two positions
AcceptedRowTwice(r) == r + 2

\* an accepted row whose position is not stepped over
AcceptedRowStays(r) == r

\* reader.block_row_num += 1 after a row that passed every qual
AcceptedRow(r) == r + 1

\* the two nested while loops of iter_scan, entered with the cursor at (b, r)
RECURSIVE IterLoop(_, _, _, _, _, _)
IterLoop(f, rd, b, r, cells, dec) ==
    IF b >= rd.num_blocks
    THEN [ret |-> "None", b |-> b, r |-> r, cells |-> cells, dec |-> dec,
          row_cnt |-> rd.row_cnt]
    ELSE IF r < num_rows_in_block(f.metadata, rd.num_rows, b)
    THEN LET cells0 == Resize(cells, Len(rd.cols))
             qs == EvalQuals(f, rd, b, r, cells0, dec, 1)
             np == ReadNonPred(f, rd, b, r, qs.cells, qs.dec, 1)
         IN  CASE qs.st = "Panic" ->
                    [ret |-> "Panic", b |-> b, r |-> r, cells |-> qs.cells,
                     dec |-> qs.dec, row_cnt |-> rd.row_cnt]
               [] qs.st = "F" -> IterLoop(f, rd, b, r + 1, qs.cells, qs.dec)
               [] qs.st = "T" /\ np.st = "Panic" ->
                    [ret |-> "Panic", b |-> b, r |-> r, cells |-> np.cells,
                     dec |-> np.dec, row_cnt |-> rd.row_cnt]
               [] OTHER ->
                    [ret |-> "Some", b |-> b, r |-> AcceptedRow(r), cells |-> np.cells,
                     dec |-> np.dec, row_cnt |-> rd.row_cnt + 1, at |-> r]
    ELSE LET nxt == SkipBlocks(f.metadata, rd.quals, rd.num_blocks, b + 1)
         IN  IF nxt.st = "Panic"
             THEN [ret |-> "Panic", b |-> nxt.block_num, r |-> 0, cells |-> cells,
                   dec |-> dec, row_cnt |-> rd.row_cnt]
             ELSE IterLoop(f, rd, nxt.block_num, 0, cells, dec)

-----------------------------------------------------------------------------
(* iter_scan of the file reader (src/wrappers). *)

\* reader.quals.get(colname)
QualOf(quals, colname) ==
    IF \E i \in 1..Len(quals) : quals[i].field = colname
    THEN Some(quals[CHOOSE i \in 1..Len(quals) : quals[i].field = colname])
    ELSE None

\* for colname in &reader.cols { .. }, from column i on: "T" all passed,
\* "F" one failed, "Err" a read failed (the ? returns None), "Panic"
RECURSIVE ReadColsW(_, _, _, _, _, _, _)
ReadColsW(f, rd, b, r, cells, dec, i) ==
    IF i > Len(rd.cols) THEN [st |-> "T", cells |-> cells, dec |-> dec]
    ELSE
    LET colname == rd.cols[i]
    IN  IF colname \notin DOMAIN f.metadata.columns
        THEN [st |-> "Panic", cells |-> cells, dec |-> dec]
        ELSE
        LET rv == read_cur_val_w(f, f.metadata.columns[colname], b, r)
            qual == QualOf(rd.quals, colname)
            dec1 == Append(dec, Decoded(colname, rv, b, r, qual # None))
            ev == IF qual = None THEN "T" ELSE CustomQualEvalW(qual[1], rv.cell)
        IN  CASE rv.st # "Ok" -> [st |-> rv.st, cells |-> cells, dec |-> dec1]
              [] ev = "P" -> [st |-> "Panic", cells |-> cells, dec |-> dec1]
              [] ev = "F" -> [st |-> "F", cells |-> <<>>, dec |-> dec1]
              [] ev = "T" ->
                    ReadColsW(f, rd, b, r, Append(cells, rv.cell), dec1, i + 1)

RECURSIVE IterLoopW(_, _, _, _, _, _)
IterLoopW(f, rd, b, r, cells, dec) ==
    IF b >= rd.num_blocks
    THEN [ret |-> "None", b |-> b, r |-> r, cells |-> cells, dec |-> dec,
          row_cnt |-> rd.row_cnt, reported |-> <<>>]
    ELSE IF r < num_rows_in_block(f.metadata, rd.num_rows, b)
    THEN LET cs == ReadColsW(f, rd, b, r, cells, dec, 1)
         IN  CASE cs.st = "Panic" ->
                    [ret |-> "Panic", b |-> b, r |-> r, cells |-> cs.cells,
                     dec |-> cs.dec, row_cnt |-> rd.row_cnt, reported |-> <<>>]
               [] cs.st = "Err" ->
                    [ret |-> "None", b |-> b, r |-> r, cells |-> cs.cells,
                     dec |-> cs.dec, row_cnt |-> rd.row_cnt, reported |-> <<"read">>]
               [] cs.st = "F" -> IterLoopW(f, rd, b, r + 1, cs.cells, cs.dec)
               [] cs.st = "T" ->
                    [ret |-> "Some", b |-> b, r |-> AcceptedRow(r), cells |-> cs.cells,
                     dec |-> cs.dec, row_cnt |-> rd.row_cnt + 1, reported |-> <<>>,
                     at |-> r]
    ELSE LET nxt == SkipBlocks(f.metadata, rd.quals, rd.num_blocks, b + 1)
         IN  IF nxt.st = "Panic"
             THEN [ret |-> "Panic", b |-> nxt.block_num, r |-> 0, cells |-> cells,
                   dec |-> dec, row_cnt |-> rd.row_cnt, reported |-> <<>>]
             ELSE IterLoopW(f, rd, nxt.block_num, 0, cells, dec)

-----------------------------------------------------------------------------
(* What the host asks for. *)

Qual(field, operator, value, use_or) ==
    [field |-> field, operator |-> operator, value |-> value, use_or |-> use_or]

\* quals the wrapper compiles
GoodQuals ==
    {Qual("age", "=", I32(4), FALSE),
     Qual("age", "<", I32(5), FALSE),
     Qual("age", ">=", I32(2), FALSE),
     Qual("age", ">", I32(13), FALSE),
     Qual("age", "<=", I32(0), FALSE),
     Qual("wt", ">=", F64(3), FALSE),
     Qual("wt", "<", F32(4), FALSE),
     Qual("name", "=", StringCell(<<2, 1>>), FALSE),
     Qual("name", ">", StringCell(<<1, 1>>), FALSE)}

\* quals it rejects, mistypes or cannot place
OddQuals ==
    {Qual("age", "=", I32(4), TRUE),
     Qual("age", "<>", I32(4), FALSE),
     Qual("age", "=", BoolCell(1), FALSE),
     Qual("age", "=", F32(4), FALSE),
     Qual("zz", "=", I32(4), FALSE)}

QualLists ==
    {<<>>} \cup {<<q>> : q \in GoodQuals \cup OddQuals}
           \cup {<<p, q>> : p \in GoodQuals, q \in {Qual("age", "<", I32(5), FALSE),
                                                     Qual("name", "=", StringCell(<<2, 1>>), FALSE),
                                                     Qual("age", "=", I32(4), TRUE)}}

ColLists == {<<>>, <<"age">>, <<"name", "age">>, <<"wt", "age", "name">>, <<"zz">>}

Limits ==
    {None} \cup {Some([count |-> c, offset |-> o]) :
                    c \in {0, 2, TotalRows + 1}, o \in {0, 1, TotalRows + 1}}

Plans == [quals : QualLists, columns : ColLists, limit : Limits, filename : FileNames]

Variants == {"db721_fdw", "wrappers"}

-----------------------------------------------------------------------------
(* The wrapper. *)

\* Db721Fdw::new: no reader; the host has planned its query
Init ==
    /\ variant \in Variants
    /\ plan \in Plans
    /\ reader = None
    /\ row = <<>>
    /\ ret = ""
    /\ lastOp = "new"
    /\ lastBegin = "none"
    /\ scan = "none"
    /\ emitted = <<>>
    /\ decoded = <<>>
    /\ reported = <<>>
    /\ panicked = FALSE
    /\ ParserOff /\ JsonOff /\ LogOff

\* a new reader that takes over the cursor of the one it replaces
AssignReaderKeepsCursor(old, new) ==
    IF old = None \/ new = None THEN new
    ELSE Some([new[1] EXCEPT !.block_num = Max(old[1].block_num, new[1].block_num),
                             !.block_row_num = old[1].block_row_num,
                             !.row_cnt = old[1].row_cnt])

\* self.reader = Db721Reader::new(..).ok(): the old reader is dropped
AssignReader(old, new) == new

\* Db721Fdw::begin_scan, with options that hold `filename` or do not
begin_scan ==
    /\ ~panicked
    /\ UNCHANGED <<parserVars, jsonVars, logVars>>
    /\ lastOp' = "begin_scan"
    /\ ret' = ""
    /\ decoded' = <<>>
    /\ UNCHANGED <<variant, plan, row>>
    /\ \E has_filename \in BOOLEAN :
        IF ~has_filename
        THEN /\ reported' = <<"filename">>
             /\ lastBegin' = "NoFilename"
             /\ UNCHANGED <<reader, scan, emitted, panicked>>
        ELSE \E res \in Db721ReaderNew(variant, plan.filename, plan.columns,
                                       plan.quals, plan.limit) :
                IF res.st = "Panic"
                THEN /\ panicked' = TRUE
                     /\ lastBegin' = "Panic"
                     /\ reported' = res.reported
                     /\ UNCHANGED <<reader, scan, emitted>>
                ELSE /\ reader' = AssignReader(reader, res.reader)
                     /\ scan' = res.st
                     /\ lastBegin' = res.st
                     /\ emitted' = <<>>
                     /\ reported' = res.reported
                     /\ UNCHANGED panicked

\* the LIMIT test letting one row too many through
IterDoneLate == reader = None \/ reader[1].row_cnt > reader[1].limit.count

\* early returns that leave out the LIMIT test
IterDoneNoLimit == reader = None

\* the early returns of iter_scan, the same in both readers: no reader, or
\* the LIMIT reached
IterDone == reader = None \/ reader[1].row_cnt >= reader[1].limit.count

\* what iter_scan leaves behind once its loops ended with res
IterResult(res) ==
    /\ lastOp' = "iter_scan"
    /\ decoded' = res.dec
    /\ row' = res.cells
    /\ reader' = Some([reader[1] EXCEPT !.block_num = res.b,
                                         !.block_row_num = res.r,
                                         !.row_cnt = res.row_cnt])
    /\ IF res.ret = "Panic"
       THEN panicked' = TRUE /\ ret' = "" /\ UNCHANGED emitted
       ELSE /\ UNCHANGED panicked
            /\ ret' = res.ret
            /\ emitted' = IF res.ret = "Some"
                          THEN Append(emitted, [b |-> res.b, r |-> res.at])
                          ELSE emitted
    /\ UNCHANGED <<variant, plan, lastBegin, scan>>

\* Db721Fdw::iter_scan of src/db721_fdw; the caller's row holds what the
\* last call left in it, or was cleared
iter_scan ==
    /\ ~panicked
    /\ UNCHANGED <<parserVars, jsonVars, logVars>>
    /\ variant = "db721_fdw"
    /\ \E cells \in {row, <<>>} :
        IF IterDone
        THEN /\ lastOp' = "iter_scan"
             /\ ret' = "None"
             /\ row' = cells
             /\ decoded' = <<>>
             /\ reported' = <<>>
             /\ UNCHANGED <<variant, plan, reader, lastBegin, scan, emitted, panicked>>
        ELSE /\ IterResult(IterLoop(Files[reader[1].file], reader[1],
                                    reader[1].block_num, reader[1].block_row_num,
                                    cells, <<>>))
             /\ reported' = <<>>

\* Db721Fdw::iter_scan of src/wrappers; the host hands in a cleared row
iter_scan_w ==
    /\ ~panicked
    /\ UNCHANGED <<parserVars, jsonVars, logVars>>
    /\ variant = "wrappers"
    /\ IF IterDone
       THEN /\ lastOp' = "iter_scan"
            /\ ret' = "None"
            /\ row' = <<>>
            /\ decoded' = <<>>
            /\ reported' = <<>>
            /\ UNCHANGED <<variant, plan, reader, lastBegin, scan, emitted, panicked>>
       ELSE LET res == IterLoopW(Files[reader[1].file], reader[1],
                                 reader[1].block_num, reader[1].block_row_num,
                                 <<>>, <<>>)
            IN  /\ IterResult(res)
                /\ reported' = res.reported

\* an end_scan that leaves the reader in place
end_scan_keeps_reader ==
    /\ ~panicked
    /\ UNCHANGED <<parserVars, jsonVars, logVars>>
    /\ lastOp' = "end_scan"
    /\ scan' = "Ended"
    /\ ret' = ""
    /\ emitted' = <<>>
    /\ decoded' = <<>>
    /\ reported' = <<>>
    /\ UNCHANGED <<variant, plan, reader, row, lastBegin, panicked>>

\* Db721Fdw::end_scan: self.reader.take()
end_scan ==
    /\ ~panicked
    /\ UNCHANGED <<parserVars, jsonVars, logVars>>
    /\ reader' = None
    /\ lastOp' = "end_scan"
    /\ scan' = "Ended"
    /\ ret' = ""
    /\ emitted' = <<>>
    /\ decoded' = <<>>
    /\ reported' = <<>>
    /\ UNCHANGED <<variant, plan, row, lastBegin, panicked>>

Next == begin_scan \/ iter_scan \/ iter_scan_w \/ end_scan

Spec == Init /\ [][Next]_vars

-----------------------------------------------------------------------------
(* What the claims speak of. *)

\* the cursor position of absolute row i, and back
PosOf(i) == [b |-> i \div MaxValuesPerBlock, r |-> i % MaxValuesPerBlock]

AbsRow(pos) == pos.b * MaxValuesPerBlock + pos.r

\* every row position of the file, in file order
AllPositions == [k \in 1..TotalRows |-> PosOf(k - 1)]

\* the row predicate of a supplied qual on the cell of its field at absolute
\* row i: the operator applied by the column's physical type, a 64-bit float
\* right-hand side narrowed; a qual that names no column, no operator or a
\* value of another type holds of no row
SatisfiesQual(q, i) ==
    /\ q.field \in ColumnNames
    /\ OpFromStr(q.operator) # None
    /\ LET type == ColType(q.field)
           v == ValueAt(q.field, i)
           op == OpFromStr(q.operator)[1]
       IN  CASE type = "int" /\ q.value.tag = "I32" -> OpEval(op, v.n, q.value.n)
             [] type = "float" /\ q.value.tag = "F32" -> OpEval(op, v.n, q.value.n)
             [] type = "float" /\ q.value.tag = "F64" ->
                    OpEval(op, v.n, NarrowF32(q.value.n))
             [] type = "str" /\ q.value.tag = "String" ->
                    OpEvalBytes(op, v.s, q.value.s)
             [] OTHER -> FALSE

SatisfiesAll(i) == \A k \in 1..Len(plan.quals) : SatisfiesQual(plan.quals[k], i)

Returned == lastOp = "iter_scan" /\ ret = "Some"

Exhausted == lastOp = "iter_scan" /\ ret = "None"

\* the scan was planned without error and has not been ended
Planned == scan \in {"Ok", "Empty"}

PosLt(p, q) == p.b < q.b \/ (p.b = q.b /\ p.r < q.r)

IsPrefix(s, u) == Len(s) <= Len(u) /\ \A k \in 1..Len(s) : s[k] = u[k]

-----------------------------------------------------------------------------
(* The claims. *)

\* C1 (as claimed): every row iter_scan returns satisfies every qual that was
\* supplied to begin_scan, two quals on one field included.
C1_PredicateSoundness ==
    Returned => SatisfiesAll(AbsRow(emitted[Len(emitted)]))

\* C2: in a scan without LIMIT over the file (its statistics are true bounds),
\* once iter_scan reports exhausted every row that satisfies all quals has been
\* returned, and skip_block is true of no block that holds such a row.
C2_PredicateCompleteness ==
    /\ (Exhausted /\ Planned /\ plan.limit = None) =>
            \A i \in RowIdx :
                SatisfiesAll(i) => \E k \in 1..Len(emitted) : emitted[k] = PosOf(i)
    /\ (reader # None /\ ~panicked) =>
            \A b \in Blocks :
                skip_block(Files[reader[1].file].metadata, reader[1].quals, b) = "T"
                    => \A i \in RowsOf(b) : ~SatisfiesAll(i)

C2_Witness ==
    /\ Exhausted /\ scan = "Ok" /\ plan.limit = None
    /\ Len(plan.quals) > 0
    /\ Len(emitted) > 0
    /\ \E b \in Blocks :
            skip_block(Files[reader[1].file].metadata, reader[1].quals, b) = "T"

\* C3: the cursor positions of the rows one scan returns are strictly
\* increasing in (block_num, block_row_num): no position is returned twice.
C3_OrderLaw ==
    \A k \in 1..(Len(emitted) - 1) : PosLt(emitted[k], emitted[k + 1])

C3_Witness ==
    /\ Len(emitted) >= 3
    /\ emitted[1].b # emitted[Len(emitted)].b
    /\ Len(plan.quals) > 0

\* C4: a scan without quals and without LIMIT returns exactly the TotalRows
\* rows of the file, the LastCount rows of the short final block included,
\* before it reports exhausted.
C4_TotalCount ==
    (Planned /\ plan.quals = <<>> /\ plan.limit = None) =>
        /\ IsPrefix(emitted, AllPositions)
        /\ Exhausted => emitted = AllPositions

C4_Witness ==
    /\ Exhausted /\ scan = "Ok" /\ plan.quals = <<>> /\ plan.limit = None
    /\ Len(emitted) = TotalRows
    /\ LastCount < MaxValuesPerBlock
    /\ Cardinality({k \in 1..Len(emitted) : emitted[k].b = NumBlocks - 1}) = LastCount

\* C5 (as claimed): the rows returned never number more than the clamped
\* limit count.
C5_LimitBound_Original ==
    reader # None => Len(emitted) <= reader[1].limit.count

\* C5 (amended): the rows returned never number more than the clamped limit
\* count, or than zero when the clamp made it negative; LIMIT 0 returns no
\* row; LIMIT n at offset 0 without quals returns the first n rows.
C5_LimitBound ==
    /\ reader # None => Len(emitted) <= Max(0, reader[1].limit.count)
    /\ (plan.limit # None /\ plan.limit[1].count = 0) => emitted = <<>>
    /\ (/\ Planned /\ plan.quals = <<>> /\ plan.limit # None
        /\ plan.limit[1].offset = 0 /\ plan.limit[1].count <= TotalRows) =>
            /\ IsPrefix(emitted, AllPositions)
            /\ Exhausted => emitted = SubSeq(AllPositions, 1, plan.limit[1].count)

C5_Witness ==
    /\ Exhausted /\ scan = "Ok" /\ plan.quals = <<>> /\ plan.limit # None
    /\ plan.limit[1].offset = 0
    /\ plan.limit[1].count < TotalRows
    /\ Len(emitted) = plan.limit[1].count
    /\ Len(emitted) > 0

\* C6: the limit a reader starts with is the supplied one with its count cut
\* to TotalRows - offset when offset + count > TotalRows, the supplied one
\* unchanged when not, and {TotalRows, 0} when none was supplied.
C6_LimitClamp ==
    reader # None =>
        reader[1].limit =
            IF plan.limit = None THEN [count |-> TotalRows, offset |-> 0]
            ELSE IF plan.limit[1].offset + plan.limit[1].count > TotalRows
                 THEN [count  |-> TotalRows - plan.limit[1].offset,
                       offset |-> plan.limit[1].offset]
                 ELSE plan.limit[1]

C6_Witness ==
    /\ reader # None /\ plan.limit # None
    /\ plan.limit[1].offset > 0
    /\ plan.limit[1].offset + plan.limit[1].count > TotalRows
    /\ reader[1].limit.count = TotalRows - plan.limit[1].offset

\* the cell tag of a column's physical type
TagOf(type) ==
    CASE type = "int" -> "I32" [] type = "float" -> "F32" [] type = "str" -> "PgString"

\* C7 (as claimed): a returned row has one cell per projected column, the
\* i-th tagged with the physical type of the i-th projected column.
C7_ProjectionLaw ==
    Returned =>
        /\ Len(row) = Len(plan.columns)
        /\ \A i \in 1..Len(plan.columns) :
                /\ plan.columns[i] \in ColumnNames
                /\ row[i].tag = TagOf(ColType(plan.columns[i]))

\* C8: end_scan can run in every state that a panic has not aborted and
\* leaves no reader; run again it changes nothing; and every iter_scan after
\* it, until a begin_scan sets up a reader, returns exhausted and decodes
\* nothing.
C8_IdempotentTeardown ==
    [][/\ ~panicked => ENABLED end_scan
       /\ lastOp' = "end_scan" => (reader' = None /\ ~panicked')
       /\ (lastOp = "end_scan" /\ lastOp' = "end_scan") => UNCHANGED vars
       /\ (scan' = "Ended" /\ lastOp' = "iter_scan") =>
                (ret' = "None" /\ decoded' = <<>> /\ reader' = None)]_vars

C8_Witness ==
    /\ scan = "Ended" /\ lastOp = "iter_scan" /\ ret = "None"
    /\ row # <<>>

\* the first block skip_block does not prune
FirstKept(md, quals) ==
    CHOOSE b \in Blocks :
        /\ skip_block(md, quals, b) # "T"
        /\ \A c \in 0..(b - 1) : skip_block(md, quals, c) = "T"

\* C9: a begin_scan that succeeds, whatever the wrapper did before, leaves a
\* reader with row_cnt = 0, block_row_num = 0 and block_num at the first block
\* that is not pruned: a reader that Db721Reader::new builds from the plan
\* alone, with nothing of an earlier scan in it.
C9_ScanReentry ==
    (lastOp = "begin_scan" /\ lastBegin = "Ok") =>
        /\ reader # None
        /\ reader[1].row_cnt = 0
        /\ reader[1].block_row_num = 0
        /\ reader[1].block_num =
                FirstKept(Files[reader[1].file].metadata, reader[1].quals)
        /\ emitted = <<>>
        /\ \E res \in Db721ReaderNew(variant, plan.filename, plan.columns,
                                     plan.quals, plan.limit) : reader = res.reader

C9_Witness ==
    /\ lastOp = "begin_scan" /\ lastBegin = "Ok"
    /\ row # <<>>
    /\ reader # None
    /\ reader[1].block_num > 0

\* a qual that the plan-time checks reject
Rejected(q) ==
    \/ q.use_or
    \/ OpFromStr(q.operator) = None
    \/ q.value.tag \notin {"I32", "F32", "F64", "String"}

\* C10 (as claimed): with a rejected qual among those supplied, begin_scan
\* reports an error, sets up no reader and does not panic, and every later
\* iter_scan returns exhausted without decoding.
C10_PlanTimeRejection ==
    (\E k \in 1..Len(plan.quals) : Rejected(plan.quals[k])) =>
        /\ lastOp = "begin_scan" =>
                (reported # <<>> /\ reader = None /\ ~panicked)
        /\ lastOp = "iter_scan" => (ret = "None" /\ decoded = <<>>)

-----------------------------------------------------------------------------
(* Unknown columns and mistyped right-hand sides. *)

\* the plan names, in its projection or in a qual, a column the file has not
UnknownInPlan ==
    LET known == DOMAIN Files[plan.filename].metadata.columns
    IN  \/ \E i \in 1..Len(plan.columns) : plan.columns[i] \notin known
        \/ \E k \in 1..Len(plan.quals) : plan.quals[k].field \notin known

\* C11 (as claimed): with a projected column or a qual field that is absent
\* from the metadata, begin_scan reports an error and sets up no reader, no
\* iter_scan returns a row, and nothing panics.
C11_UnknownColumn ==
    UnknownInPlan =>
        /\ ~panicked
        /\ (lastOp = "begin_scan" /\ lastBegin # "NoFilename") =>
                (reported # <<>> /\ reader = None)
        /\ lastOp = "iter_scan" => ret = "None"

\* the right-hand value of q is not of the physical type of q's column (a
\* 64-bit float for a float column is)
Mistyped(q) ==
    /\ q.field \in ColumnNames
    /\ ~ \/ ColType(q.field) = "int" /\ q.value.tag = "I32"
         \/ ColType(q.field) = "float" /\ q.value.tag \in {"F32", "F64"}
         \/ ColType(q.field) = "str" /\ q.value.tag = "String"

\* C12 (as claimed): with a mistyped qual among otherwise supported quals on
\* projected columns, begin_scan reports an error and sets up no reader, and
\* skip_block and the row evaluator never meet the mismatch (nothing panics).
C12_RhsTypeCheck ==
    (/\ \E k \in 1..Len(plan.quals) : Mistyped(plan.quals[k])
     /\ \A k \in 1..Len(plan.quals) :
            /\ ~plan.quals[k].use_or
            /\ OpFromStr(plan.quals[k].operator) # None
            /\ Position(plan.columns, plan.quals[k].field) # None
     /\ ~UnknownInPlan) =>
        /\ ~panicked
        /\ (lastOp = "begin_scan" /\ lastBegin # "NoFilename") =>
                (reported # <<>> /\ reader = None)

-----------------------------------------------------------------------------
(* The same wrapper over the damaged files and with every operator. *)

Operators == {"=", "<", "<=", ">", ">="}

\* one qual per operator and right-hand value, on each column
StatQuals ==
    {Qual("age", o, I32(v), FALSE) : o \in Operators, v \in {1, 12}}
        \cup {Qual("wt", o, F32(v), FALSE) : o \in Operators, v \in {2, 6}}
        \cup {Qual("name", o, StringCell(v), FALSE) :
                    o \in Operators, v \in {<<1, 1, 1>>, <<2>>}}

FileQualLists ==
    {<<>>} \cup {<<q>> : q \in StatQuals}
           \cup {<<Qual("name", ">=", StringCell(<<2>>), FALSE), q>> :
                    q \in {Qual("wt", ">", F32(2), FALSE), Qual("age", "<", I32(12), FALSE)}}

FileColLists == {<<"age">>, <<"name", "wt">>, <<"wt", "age", "name">>}

FileLimits == {None, Some([count |-> 2, offset |-> 0])}

FilePlans ==
    [quals : FileQualLists, columns : FileColLists, limit : FileLimits,
     filename : {"farm.db721"} \cup DamagedNames]

InitFiles ==
    /\ variant \in Variants
    /\ plan \in FilePlans
    /\ reader = None
    /\ row = <<>>
    /\ ret = ""
    /\ lastOp = "new"
    /\ lastBegin = "none"
    /\ scan = "none"
    /\ emitted = <<>>
    /\ decoded = <<>>
    /\ reported = <<>>
    /\ panicked = FALSE
    /\ ParserOff /\ JsonOff /\ LogOff

SpecFiles == InitFiles /\ [][Next]_vars

-----------------------------------------------------------------------------
(* Damaged rows and trailers. *)

\* the last iter_scan ended in a decode that failed: its offset lies outside
\* the file, or its string slot holds no zero byte
DecodeFailed ==
    /\ lastOp = "iter_scan"
    /\ decoded # <<>>
    /\ LET d == decoded[Len(decoded)]
           f == Files[plan.filename]
           col == f.metadata.columns[d.col]
       IN  IF variant = "db721_fdw"
           THEN read_cur_val(f, col, d.block, d.row).st # "Ok"
           ELSE read_cur_val_w(f, col, d.block, d.row).st # "Ok"

\* C13 (as claimed): an iter_scan whose decode fails reports an error and
\* returns no row without panicking, and every iter_scan that follows it in
\* the scan returns exhausted.
C13_CorruptRow ==
    [][/\ DecodeFailed' => (reported' # <<>> /\ ret' = "None" /\ ~panicked')
       /\ (DecodeFailed /\ lastOp' = "iter_scan") => ret' = "None"]_vars

\* the trailer of the plan's file is one parse_file cannot decode
BadTrailer ==
    LET f == Files[plan.filename]
    IN  f.exists /\ (f.len < 4 \/ f.metadata_len > f.len - 4 \/ ~f.json_ok)

\* C14 (as claimed): over a file with a bad trailer begin_scan reports an
\* error and sets up no reader, nothing panics, and no iter_scan returns a row.
C14_BadTrailer ==
    BadTrailer =>
        /\ ~panicked
        /\ (lastOp = "begin_scan" /\ lastBegin # "NoFilename") =>
                (reported # <<>> /\ reader = None)
        /\ lastOp = "iter_scan" => ret = "None"

-----------------------------------------------------------------------------
(* parse_file on its own, byte by byte (parser.rs). *)

MaxPayload == 2

\* the most significant byte first
u32_from_be_bytes(buf) == buf[4] + 256 * buf[3] + 65536 * buf[2] + 16777216 * buf[1]

\* u32::from_le_bytes
u32_from_le_bytes(buf) == buf[1] + 256 * buf[2] + 65536 * buf[3] + 16777216 * buf[4]

\* Metadata::from_slice as far as parse_file depends on it: a text between
\* braces decodes, to a value that is determined by the text; any other fails
from_slice(buf) ==
    IF Len(buf) >= 2 /\ buf[1] = 123 /\ buf[Len(buf)] = 125
    THEN Some([json |-> buf])
    ELSE None

\* parse_file on a file of these bytes: every way it can end, with the
\* position the file is left at
parse_bytes(bytes) ==
    LET n == Len(bytes)
    IN  IF n < 4
        THEN {[st |-> "Err", metadata |-> None, position |-> 0]}
        ELSE
        LET pos == n - 4
            metadata_len == u32_from_le_bytes(SubSeq(bytes, pos + 1, pos + 4))
        IN  IF metadata_len > pos
            THEN {[st |-> "Panic", metadata |-> None, position |-> n],
                  [st |-> "Err", metadata |-> None, position |-> n]}
            ELSE
            LET start == pos - metadata_len
                buf == SubSeq(bytes, start + 1, start + metadata_len)
                metadata == from_slice(buf)
            IN  IF metadata = None
                THEN {[st |-> "Panic", metadata |-> None, position |-> 0]}
                ELSE {[st |-> "Ok", metadata |-> metadata, position |-> 0]}

Payloads ==
    UNION {[1..k -> {0, 123}] : k \in 0..MaxPayload}

JsonTexts ==
    {<<123, 125>>, <<123, 34, 125>>, <<123, 34, 34, 125>>, <<34, 125>>, <<123, 34>>}

LenFields(text) ==
    {<<Len(text), 0, 0, 0>>, <<Len(text) + 1, 0, 0, 0>>, <<0, 1, 0, 0>>, <<0, 0, 0, 1>>}

TrailerFiles ==
    {<<>>, <<2, 0>>, <<123, 125, 2>>}
        \cup {p \o t \o l : p \in Payloads, t \in JsonTexts, l \in UNION {LenFields(u) : u \in JsonTexts}}

InitTrailer ==
    /\ ScanOff /\ JsonOff /\ LogOff
    /\ trailer \in TrailerFiles
    /\ db721_file = <<>>

\* one call of parse_file on the file
parse_trailer ==
    /\ \E r \in parse_bytes(trailer) : db721_file' = <<r>>
    /\ UNCHANGED <<trailer, scanVars, jsonVars, logVars>>

NextTrailer == parse_trailer

SpecTrailer == InitTrailer /\ [][NextTrailer]_vars

\* C15: for a file of n >= 4 bytes whose last 4 bytes, read least significant
\* byte first, give a length L <= n - 4 and whose bytes [n - 4 - L, n - 4)
\* are a trailer that decodes, parse_file succeeds with the metadata decoded
\* from exactly those bytes and leaves the file at offset 0.
C15_TrailerLocation ==
    LET n == Len(trailer)
        L == trailer[n - 3] + 256 * trailer[n - 2] + 65536 * trailer[n - 1]
                + 16777216 * trailer[n]
        text == SubSeq(trailer, n - 4 - L + 1, n - 4)
    IN  (/\ db721_file # <<>>
         /\ n >= 4
         /\ L <= n - 4
         /\ Len(text) >= 2 /\ text[1] = 123 /\ text[Len(text)] = 125) =>
            /\ db721_file[1].st = "Ok"
            /\ db721_file[1].metadata = <<[json |-> text]>>
            /\ db721_file[1].position = 0

C15_Witness ==
    /\ db721_file # <<>>
    /\ db721_file[1].st = "Ok"
    /\ Len(db721_file[1].metadata[1].json) = 3
    /\ Len(trailer) = 4 + 3 + MaxPayload
    /\ trailer[1] = 0

-----------------------------------------------------------------------------
(* Metadata on its own: serde's decoding and encoding of a trailer          *)
(* (metadata.rs).  A JSON object is a function from its keys; a number of a *)
(* float column lives on the grid of NarrowF32.                             *)

\* u32::from_str on the keys of block_stats
KeyFromStr(k) ==
    CASE k = "0"  -> Some(0)
      [] k = "1"  -> Some(1)
      [] k = "01" -> Some(1)
      [] OTHER    -> None

\* how serde_json writes a u32 key
KeyToStr(n) == CASE n = 0 -> "0" [] n = 1 -> "1"

\* Deserialize for BlockStats<T>: num, min and max are required, min_len and
\* max_len default to 0, other keys are ignored
DecodeBlockStats(type, j) ==
    IF ~({"num", "min", "max"} \subseteq DOMAIN j) THEN None
    ELSE Some([num     |-> j["num"],
               min     |-> IF type = "float" THEN NarrowF32(j["min"]) ELSE j["min"],
               max     |-> IF type = "float" THEN NarrowF32(j["max"]) ELSE j["max"],
               min_len |-> IF "min_len" \in DOMAIN j THEN j["min_len"] ELSE 0,
               max_len |-> IF "max_len" \in DOMAIN j THEN j["max_len"] ELSE 0])

\* de_int_key: every key is parsed with from_str and inserted into the map
\* (of two keys that parse to one number the map keeps one)
DecodeBSMap(type, j) ==
    IF \E k \in DOMAIN j : KeyFromStr(k) = None \/ DecodeBlockStats(type, j[k]) = None
    THEN None
    ELSE Some([n \in {KeyFromStr(k)[1] : k \in DOMAIN j} |->
                    DecodeBlockStats(type,
                        j[CHOOSE k \in DOMAIN j : KeyFromStr(k)[1] = n])[1]])

\* Deserialize for Column: the flattened Stats is tagged by "type"
DecodeColumn(j) ==
    IF ~({"type", "block_stats", "num_blocks", "start_offset"} \subseteq DOMAIN j)
    THEN None
    ELSE IF j["type"] \notin {"float", "int", "str"} THEN None
    ELSE IF DecodeBSMap(j["type"], j["block_stats"]) = None THEN None
    ELSE Some([type         |-> j["type"],
               block_stats  |-> DecodeBSMap(j["type"], j["block_stats"])[1],
               num_blocks   |-> j["num_blocks"],
               start_offset |-> j["start_offset"]])

\* Deserialize for Metadata
DecodeMetadata(j) ==
    IF ~({"Table", "Columns", "Max Values Per Block"} \subseteq DOMAIN j) THEN None
    ELSE IF \E c \in DOMAIN j["Columns"] : DecodeColumn(j["Columns"][c]) = None
    THEN None
    ELSE Some([table_name         |-> j["Table"],
               columns            |-> [c \in DOMAIN j["Columns"] |->
                                            DecodeColumn(j["Columns"][c])[1]],
               max_vals_per_block |-> j["Max Values Per Block"]])

\* Serialize for BlockStats<T>: all five fields are written
EncodeBlockStats(st) ==
    [k \in {"num", "min", "max", "min_len", "max_len"} |->
        CASE k = "num" -> st.num
          [] k = "min" -> st.min
          [] k = "max" -> st.max
          [] k = "min_len" -> st.min_len
          [] k = "max_len" -> st.max_len]

\* Serialize for Column
EncodeColumn(col) ==
    [k \in {"type", "block_stats", "num_blocks", "start_offset"} |->
        CASE k = "type" -> col.type
          [] k = "block_stats" ->
                [s \in {KeyToStr(n) : n \in DOMAIN col.block_stats} |->
                    EncodeBlockStats(
                        col.block_stats[CHOOSE n \in DOMAIN col.block_stats :
                                            KeyToStr(n) = s])]
          [] k = "num_blocks" -> col.num_blocks
          [] k = "start_offset" -> col.start_offset]

\* Serialize for Metadata
EncodeMetadata(md) ==
    [k \in {"Table", "Columns", "Max Values Per Block"} |->
        CASE k = "Table" -> md.table_name
          [] k = "Columns" -> [c \in DOMAIN md.columns |-> EncodeColumn(md.columns[c])]
          [] k = "Max Values Per Block" -> md.max_vals_per_block]

\* trailers: the statistics of a block, without and with the two lengths
StatsObjects(type) ==
    LET bounds == CASE type = "int" -> {<<1, 2>>}
                    [] type = "float" -> {<<2, 4>>, <<1, 4>>}
                    [] type = "str" -> {<<(<<1>>), (<<2, 1>>)>>}
        lens == IF type = "str" THEN <<1, 2>> ELSE <<0, 0>>
    IN  {[k \in {"num", "min", "max"} |->
            CASE k = "num" -> 2 [] k = "min" -> b[1] [] k = "max" -> b[2]] :
                b \in bounds}
        \cup
        {[k \in {"num", "min", "max", "min_len", "max_len"} |->
            CASE k = "num" -> 2 [] k = "min" -> b[1] [] k = "max" -> b[2]
              [] k = "min_len" -> lens[1] [] k = "max_len" -> lens[2]] :
                b \in bounds}

ColumnObject(type, keys, st) ==
    [k \in {"type", "block_stats", "num_blocks", "start_offset"} |->
        CASE k = "type" -> type
          [] k = "block_stats" -> [b \in keys |-> st]
          [] k = "num_blocks" -> Cardinality(keys)
          [] k = "start_offset" -> 0]

ColumnObjects ==
    UNION {{ColumnObject(type, keys, st) :
                keys \in {{"0"}, {"0", "1"}, {"01"}}, st \in StatsObjects(type)} :
            type \in {"int", "float", "str"}}

TrailerDocs ==
    {[k \in {"Table", "Columns", "Max Values Per Block"} |->
        CASE k = "Table" -> "Farm"
          [] k = "Columns" -> cols
          [] k = "Max Values Per Block" -> 2] :
            cols \in [{"a"} -> ColumnObjects]
                        \cup {[c \in {"a", "b"} |-> IF c = "a" THEN x ELSE y] :
                                x \in ColumnObjects,
                                y \in {z \in ColumnObjects : z["type"] = "str"}}}

InitJson ==
    /\ ScanOff /\ ParserOff /\ LogOff
    /\ doc \in TrailerDocs
    /\ redone = <<>>

\* Metadata::from_slice on the trailer, then serde_json::to_string_pretty
round_trip ==
    /\ redone' = IF DecodeMetadata(doc) = None
                 THEN <<[st |-> "Err"]>>
                 ELSE <<[st |-> "Ok", json |-> EncodeMetadata(DecodeMetadata(doc)[1])]>>
    /\ UNCHANGED <<doc, scanVars, parserVars, logVars>>

NextJson == round_trip

SpecJson == InitJson /\ [][NextJson]_vars

\* C16 (as claimed): a trailer that decodes is, encoded again, the same JSON
\* object: the same keys with the same values at every level.
C16_MetadataRoundTrip ==
    (redone # <<>> /\ redone[1].st = "Ok") => redone[1].json = doc

-----------------------------------------------------------------------------
(* Db721Fdw::new on its own, called concurrently.  LOG_INIT is a            *)
(* `static mut` read and written without synchronization: each access is a  *)
(* step of its own and the calls interleave freely.                         *)

NumCalls == 3

Calls == 1..NumCalls

InitLog ==
    /\ ScanOff /\ ParserOff /\ JsonOff
    /\ LOG_INIT = FALSE
    /\ pc = [t \in Calls |-> "check"]
    /\ inits = 0

\* if unsafe { !LOG_INIT }
new_check(t) ==
    /\ pc[t] = "check"
    /\ pc' = [pc EXCEPT ![t] = IF LOG_INIT THEN "return" ELSE "init"]
    /\ UNCHANGED <<LOG_INIT, inits, scanVars, parserVars, jsonVars>>

\* env_logger::builder()...try_init().unwrap_or_else(..): a second try_init
\* fails and is answered with a warning
new_init(t) ==
    /\ pc[t] = "init"
    /\ inits' = inits + 1
    /\ pc' = [pc EXCEPT ![t] = "set"]
    /\ UNCHANGED <<LOG_INIT, scanVars, parserVars, jsonVars>>

\* unsafe { LOG_INIT = true }
new_set(t) ==
    /\ pc[t] = "set"
    /\ LOG_INIT' = TRUE
    /\ pc' = [pc EXCEPT ![t] = "return"]
    /\ UNCHANGED <<inits, scanVars, parserVars, jsonVars>>

\* Self { reader: None }
new_return(t) ==
    /\ pc[t] = "return"
    /\ pc' = [pc EXCEPT ![t] = "done"]
    /\ UNCHANGED <<LOG_INIT, inits, scanVars, parserVars, jsonVars>>

NextLog ==
    \E t \in Calls : new_check(t) \/ new_init(t) \/ new_set(t) \/ new_return(t)

SpecLog == InitLog /\ [][NextLog]_vars

\* C17 (as claimed): however the concurrent calls of Db721Fdw::new
\* interleave, the logger initialization runs at most once, and exactly once
\* when every call has returned.
C17_OneShotLogging ==
    /\ inits <= 1
    /\ (\A t \in Calls : pc[t] = "done") => inits = 1

-----------------------------------------------------------------------------
(* Pruning. *)

\* a > b for two values of a column of this type: numbers by size, strings
\* byte by byte
After(type, a, b) == IF type = "str" THEN LexLt(b.s, a.s) ELSE a.n > b.n

\* the per-qual test as the claim words it, on the statistics of block b of
\* the qual's column; false when the column has no entry for b
PerQualTest(md, q, b) ==
    LET col == md.columns[q.field]
        type == col.type
    IN  /\ b \in DOMAIN col.block_stats
        /\ LET min == col.block_stats[b].min
               max == col.block_stats[b].max
               v == q.rhs
           IN  CASE q.op = "Eq" ->
                        \/ After(type, min, v)
                        \/ After(type, v, max)
                        \/ /\ type = "str"
                           /\ \/ col.block_stats[b].max_len < Len(v.s)
                              \/ col.block_stats[b].min_len > Len(v.s)
                 [] q.op = "Lt" -> ~After(type, v, min)
                 [] q.op = "Lte" -> After(type, min, v)
                 [] q.op = "Gt" -> ~After(type, max, v)
                 [] q.op = "Gte" -> After(type, v, max)

\* C18: for the quals a plan compiles to, in every order the qual map can be
\* iterated in, skip_block(b) is true iff the per-qual test of at least one
\* qual holds on block b; a column without an entry for b contributes false,
\* and without quals no block is skipped.  The same holds of the quals of
\* every reader.
C18_SkipBlockLaw ==
    LET md == Files[plan.filename].metadata
        cq == CompileQuals(variant, plan.columns, plan.quals, 1, <<>>)
        Law(quals) ==
            \A b \in 0..NumBlocks :
                skip_block(md, quals, b) =
                    IF \E i \in 1..Len(quals) : PerQualTest(md, quals[i], b)
                    THEN "T" ELSE "F"
    IN  /\ cq.st = "Ok" =>
                \A order \in IterOrders(DOMAIN cq.qs) :
                    Law([i \in 1..Len(order) |-> cq.qs[order[i]]])
        /\ reader # None => Law(reader[1].quals)

\* a scan that starts at block 1: block 0 is pruned by the qual on age, and
\* block 1, for which age has no statistics, is not
C18_Witness ==
    /\ plan.filename = "sparse.db721"
    /\ reader # None
    /\ reader[1].block_num = 1
    /\ Len(reader[1].quals) = 1
    /\ reader[1].quals[1].field = "age"
    /\ 1 \notin DOMAIN Files[plan.filename].metadata.columns["age"].block_stats
    /\ lastOp = "iter_scan"

\* C19: every cell the last iter_scan decoded lies in a block that skip_block
\* does not prune for the reader's quals, and a scan whose blocks are all
\* pruned has no reader, returns no row and decodes nothing.
C19_NoDecodeInPrunedBlock ==
    /\ \A i \in 1..Len(decoded) :
            /\ reader # None
            /\ skip_block(Files[reader[1].file].metadata, reader[1].quals,
                          decoded[i].block) = "F"
    /\ scan = "Empty" =>
            /\ reader = None
            /\ decoded = <<>>
            /\ emitted = <<>>
            /\ lastOp = "iter_scan" => ret = "None"

\* a scan that returned a row of block 0, stepped over the pruned block 1
\* once block 0 was exhausted, and decoded cells of block 2
C19_Witness ==
    /\ reader # None
    /\ lastOp = "iter_scan"
    /\ \E i \in 1..Len(emitted) : emitted[i].b = 0
    /\ \E j \in 1..Len(decoded) : decoded[j].block = 2
    /\ skip_block(Files[reader[1].file].metadata, reader[1].quals, 1) = "T"

\* a scan of a file whose blocks are all pruned, asked for a row
C19_WitnessEmpty == scan = "Empty" /\ lastOp = "iter_scan" /\ plan.quals # <<>>

-----------------------------------------------------------------------------
(* The order of decodes within one row position. *)

SamePosition(d, e) == d.block = e.block /\ d.row = e.row

\* C20: among the decodes of one iter_scan that ended without a panic or a
\* read error, a column without a qual is decoded only at the position of
\* the row the call returns, and at no position is a column with a qual
\* decoded after a column without one.
C20_ShortCircuitOrder ==
    (~panicked /\ reported = <<>>) =>
        \A i \in 1..Len(decoded) :
            ~decoded[i].pred =>
                /\ ret = "Some"
                /\ emitted # <<>>
                /\ emitted[Len(emitted)] =
                        [b |-> decoded[i].block, r |-> decoded[i].row]
                /\ \A j \in (i + 1)..Len(decoded) :
                        SamePosition(decoded[i], decoded[j]) => ~decoded[j].pred

\* the memory-mapped reader alone keeps the order
C20_OrderInMmapReader == variant = "db721_fdw" => C20_ShortCircuitOrder

-----------------------------------------------------------------------------
(* The cells of a returned row. *)

\* the cell the reader of this variant makes of the bytes at offset off of a
\* column of this type
CellFrom(v, f, type, off) ==
    LET stored == StoredAt(f, type, off)
    IN  CASE type = "str" -> PgString(stored.s)
          [] type = "float" -> F32(stored.n)
          [] type = "int" -> IF v = "wrappers" THEN F32(F32FromIntBits(stored.n))
                             ELSE I32(stored.n)

\* C21: a returned row has one cell per projected column; the cell of column
\* C was decoded, in the call that returned the row, at byte offset
\* start_offset(C) + r * size with size 4 for int and float and 32 for str,
\* r = block * max_vals_per_block + row being the one position at which the
\* row was accepted; the cell holds what is stored there, and every column of
\* the row was decoded at that offset and at no other.
C21_RowAddressing ==
    (Returned /\ reader # None /\ emitted # <<>>) =>
        LET f == Files[reader[1].file]
            pos == emitted[Len(emitted)]
            r == pos.b * f.metadata.max_vals_per_block + pos.r
        IN  /\ Len(row) = Len(reader[1].cols)
            /\ \A k \in 1..Len(reader[1].cols) :
                LET c == reader[1].cols[k]
                    type == f.metadata.columns[c].type
                    size == IF type = "str" THEN 32 ELSE 4
                    off == f.metadata.columns[c].start_offset + r * size
                IN  /\ \E i \in 1..Len(decoded) :
                            /\ decoded[i].col = c
                            /\ decoded[i].block = pos.b
                            /\ decoded[i].row = pos.r
                    /\ \A i \in 1..Len(decoded) :
                            (decoded[i].col = c /\ decoded[i].block = pos.b
                                /\ decoded[i].row = pos.r)
                                => decoded[i].off = off
                    /\ row[k] = CellFrom(variant, f, type, off)

\* a row of three columns returned from the second row of block 1
C21_Witness ==
    /\ Returned
    /\ reader # None
    /\ Len(row) = 3
    /\ emitted # <<>>
    /\ emitted[Len(emitted)] = [b |-> 1, r |-> 1]

-----------------------------------------------------------------------------
(* OFFSET. *)

\* the first row a scan with a LIMIT returned is the first row of the file
\* that satisfies every supplied qual, and a scan whose offset lies beyond
\* the file returned nothing
OffsetNotApplied ==
    plan.limit # None =>
        /\ emitted # <<>> =>
                /\ SatisfiesAll(AbsRow(emitted[1]))
                /\ \A i \in 0..(AbsRow(emitted[1]) - 1) : ~SatisfiesAll(i)
        /\ plan.limit[1].offset > TotalRows => emitted = <<>>

\* C22 (as claimed): with a LIMIT of any offset, the first row the scan
\* returns is the first row of the file that satisfies all quals, and an
\* offset greater than the number of rows leaves a scan without rows.
C22_OffsetNeverApplied == OffsetNotApplied

\* no two supplied quals name the same field
DistinctQualFields ==
    \A i, j \in 1..Len(plan.quals) :
        i # j => plan.quals[i].field # plan.quals[j].field

\* every supplied qual names a projected column
QualFieldsProjected ==
    \A i \in 1..Len(plan.quals) :
        \E k \in 1..Len(plan.columns) : plan.columns[k] = plan.quals[i].field

\* the same law for plans whose quals are on different, projected fields
C22_OffsetWhenQualsApply ==
    (DistinctQualFields /\ QualFieldsProjected) => OffsetNotApplied

\* a scan with a non-zero offset that returned the first row of the file
C22_OffsetRowReturned ==
    /\ plan.limit # None
    /\ plan.limit[1].offset = 1
    /\ emitted # <<>>
    /\ emitted[1] = [b |-> 0, r |-> 0]

-----------------------------------------------------------------------------
(* Exhaustion. *)

LimitReached == reader # None /\ reader[1].row_cnt >= reader[1].limit.count

PastLastBlock == reader # None /\ reader[1].block_num >= reader[1].num_blocks

\* a state in which iter_scan has nothing left to return
Spent == reader = None \/ LimitReached \/ PastLastBlock

\* C23: an iter_scan that returns exhausted leaves the wrapper spent (no
\* reader, the limit reached or the last block passed); a spent wrapper stays
\* spent under iter_scan, end_scan and a begin_scan that sets up no scan, and
\* every iter_scan of a spent wrapper returns exhausted; an iter_scan that
\* finds the limit reached leaves the reader, with block_num, block_row_num
\* and row_cnt, as it was.
C23_StickyExhaustion ==
    [][/\ (lastOp' = "iter_scan" /\ ret' = "None") => Spent'
       /\ (Spent /\ lastOp' = "iter_scan") => (ret' = "None" /\ ~panicked')
       /\ (Spent /\ (lastOp' # "begin_scan" \/ lastBegin' = "NoFilename")) => Spent'
       /\ (LimitReached /\ lastOp' = "iter_scan") => reader' = reader]_vars

\* exhausted by the limit with blocks left: rows were returned, and the
\* cursor stands inside the file
C23_Witness ==
    /\ Exhausted
    /\ LimitReached
    /\ ~PastLastBlock
    /\ reader[1].row_cnt > 0

-----------------------------------------------------------------------------
(* Termination of iter_scan. *)

\* the cursor of a reader as a position
Cursor(rd) == [b |-> rd.block_num, r |-> rd.block_row_num]

\* one step of the wrapper that is an iter_scan call ends by returning one
\* row or exhausted; a call that returns a row adds one to row_cnt and moves
\* the cursor forward; no scan returns more rows than the file has
IterScanReturns ==
    lastOp' = "iter_scan" =>
        /\ ~panicked'
        /\ ret' \in {"Some", "None"}
        /\ ret' = "Some" =>
                /\ reader # None /\ reader' # None
                /\ reader'[1].row_cnt = reader[1].row_cnt + 1
                /\ PosLt(Cursor(reader[1]), Cursor(reader'[1]))
        /\ Len(emitted') <= TotalRows

\* C24 (as claimed): every iter_scan call terminates with one row or with
\* exhausted, a scan returns at most TotalRows rows, and each call that
\* returns a row raises row_cnt by exactly one and advances the cursor by at
\* least one row position.
C24_Termination == [][IterScanReturns]_vars

\* the same for the memory-mapped reader alone
C24_TerminationMmap == [][variant = "db721_fdw" => IterScanReturns]_vars

-----------------------------------------------------------------------------
(* The cursor. *)

\* the rows the file holds in block b, none for a b past the last block
RowsInBlock(b) == IF b \in Blocks THEN CountOf(b) ELSE 0

\* the row positions of the file that lie before the cursor
Passed(rd) == {i \in RowIdx : PosLt(PosOf(i), Cursor(rd))}

\* C25: while there is a reader, block_num <= num_blocks, block_row_num is at
\* most the number of rows of block block_num, row_cnt is the number of rows
\* returned since the begin_scan that made the reader, and row_cnt is at most
\* the number of row positions the cursor has passed.
C25_CursorInvariants ==
    (reader # None /\ reader[1].file = "farm.db721") =>
        /\ reader[1].block_num \in 0..reader[1].num_blocks
        /\ reader[1].num_blocks = NumBlocks
        /\ reader[1].block_row_num \in 0..RowsInBlock(reader[1].block_num)
        /\ reader[1].row_cnt = Len(emitted)
        /\ reader[1].row_cnt <= Cardinality(Passed(reader[1]))

\* a reader in mid-scan: rows returned, rows rejected, the cursor at the end
\* of a block that is not the first
C25_Witness ==
    /\ reader # None
    /\ Returned
    /\ reader[1].block_num > 0
    /\ reader[1].block_row_num = RowsInBlock(reader[1].block_num)
    /\ reader[1].row_cnt > 0
    /\ reader[1].row_cnt < Cardinality(Passed(reader[1]))

-----------------------------------------------------------------------------
(* begin_scan without a filename. *)

\* C26 (as claimed): once the latest begin_scan found no filename among its
\* options, every iter_scan returns exhausted, whatever preceded that
\* begin_scan; no row of an earlier scan is returned.
C26_NoFilenameNoScan ==
    (lastBegin = "NoFilename" /\ lastOp = "iter_scan") =>
        /\ ret = "None"
        /\ ~panicked
        /\ decoded = <<>>

\* the same when the scan before was ended, or there was none
C26_NoFilenameAfterEnd ==
    (lastBegin = "NoFilename" /\ lastOp = "iter_scan" /\ scan \in {"none", "Ended"})
        => ret = "None" /\ ~panicked /\ decoded = <<>>

-----------------------------------------------------------------------------
(* The column that num_blocks and num_rows are taken from. *)

\* the columns of a trailer declare the same number of blocks and the same
\* count for every block
ColumnsAgree(md) ==
    \A c, d \in DOMAIN md.columns :
        /\ md.columns[c].num_blocks = md.columns[d].num_blocks
        /\ DOMAIN md.columns[c].block_stats = DOMAIN md.columns[d].block_stats
        /\ \A b \in DOMAIN md.columns[c].block_stats :
                md.columns[c].block_stats[b].num = md.columns[d].block_stats[b].num

\* C27 (as claimed): begin_scan sets up a reader only for a trailer whose
\* columns agree on num_blocks and on the per-block counts, and every reader
\* that Db721Reader::new can build for the plan, whichever column the map
\* yields first, has the num_blocks, the num_rows, the limit and the first
\* block of the reader set up, so that the rows returned do not depend on
\* the pick.
C27_ColumnChoice ==
    (reader # None /\ lastOp = "begin_scan" /\ lastBegin = "Ok") =>
        /\ ColumnsAgree(Files[reader[1].file].metadata)
        /\ \A res \in Db721ReaderNew(variant, plan.filename, plan.columns,
                                     plan.quals, plan.limit) :
                /\ res.st = "Ok"
                /\ res.reader[1].num_blocks = reader[1].num_blocks
                /\ res.reader[1].num_rows = reader[1].num_rows
                /\ res.reader[1].limit = reader[1].limit
                /\ res.reader[1].block_num = reader[1].block_num

\* the same for the files whose columns agree
C27_ChoiceWhenColumnsAgree ==
    ColumnsAgree(Files[plan.filename].metadata) => C27_ColumnChoice

-----------------------------------------------------------------------------
(* String blocks and their length statistics. *)

\* the blocks of column name of a file whose [min, max] holds v
BlocksHolding(md, v) ==
    {b \in DOMAIN md.columns["name"].block_stats :
        /\ LexLe(md.columns["name"].block_stats[b].min.s, v)
        /\ LexLe(v, md.columns["name"].block_stats[b].max.s)}

\* the blocks of the file that hold a row whose name is v
BlocksWithRow(v) == {b \in Blocks : \E i \in RowsOf(b) : ValueAt("name", i).s = v}

\* for a scan of file fname with the one qual name = v, v not empty: no block
\* of keep(v) is pruned, so that a begin_scan with such a block sets up a
\* reader, and a scan without LIMIT that ran to exhaustion has returned every
\* row whose name is v
EqualityKeepsBlock(fname, keep(_)) ==
    (/\ plan.filename = fname
     /\ Len(plan.quals) = 1
     /\ plan.quals[1].field = "name"
     /\ plan.quals[1].operator = "="
     /\ plan.quals[1].value.tag = "String"
     /\ plan.quals[1].value.s # <<>>) =>
        LET md == Files[fname].metadata
            v == plan.quals[1].value.s
        IN  /\ reader # None =>
                    \A b \in keep(v) : skip_block(md, reader[1].quals, b) # "T"
            /\ (lastOp = "begin_scan" /\ keep(v) # {}) =>
                    lastBegin \in {"Ok", "NoFilename", "Panic"}
            /\ (Exhausted /\ scan = "Ok" /\ plan.limit = None) =>
                    \A i \in RowIdx :
                        ValueAt("name", i).s = v =>
                            \E k \in 1..Len(emitted) : emitted[k] = PosOf(i)

\* C28 (as claimed): in a file whose str stat objects omit min_len and
\* max_len, an equality qual with a non-empty v inside [min, max] of a block
\* does not prune that block, and a row equal to v in it is still returned.
C28_NoLengthStats ==
    EqualityKeepsBlock("nolen.db721",
        LAMBDA v : BlocksHolding(Files["nolen.db721"].metadata, v))

\* over the file that carries the length statistics, the same qual prunes
\* no block that holds a row equal to v
C28_WithLengthStats == EqualityKeepsBlock("farm.db721", BlocksWithRow)

-----------------------------------------------------------------------------
(* A qual on a column that is not projected. *)

\* the plan has one qual, which the wrapper compiles, on a column of the
\* file that is not among the projected columns, all of which the file has
QualOffProjection ==
    /\ plan.filename = "farm.db721"
    /\ Len(plan.quals) = 1
    /\ plan.quals[1] \in GoodQuals
    /\ \A k \in 1..Len(plan.columns) :
            /\ plan.columns[k] \in ColumnNames
            /\ plan.columns[k] # plan.quals[1].field

\* C29 (as claimed): with a qual on a column of the file that is not
\* projected, begin_scan completes without a crash, and every row the scan
\* returns satisfies the qual.
C29_QualOffProjection ==
    QualOffProjection =>
        /\ lastOp = "begin_scan" => ~panicked
        /\ \A k \in 1..Len(emitted) : SatisfiesQual(plan.quals[1], AbsRow(emitted[k]))

\* the file reader does not crash in begin_scan
C29_NoCrashInFileReader ==
    (QualOffProjection /\ variant = "wrappers" /\ lastOp = "begin_scan") => ~panicked

\* the memory-mapped reader, which crashes, returns no row
C29_NoRowFromMmapReader ==
    (QualOffProjection /\ variant = "db721_fdw") => emitted = <<>>

\* the file reader returned a row that does not satisfy the qual
C29_UnfilteredRow ==
    /\ QualOffProjection
    /\ variant = "wrappers"
    /\ Returned
    /\ ~SatisfiesQual(plan.quals[1], AbsRow(emitted[Len(emitted)]))

====
